---------------------------- MODULE Spec2Model ----------------------------
(***************************************************************************)
(* Model of Sources/MachTaskSelfWrapper: the C function                    *)
(*                                                                         *)
(*     mach_port_t get_current_task_port(void) { return mach_task_self_; } *)
(*                                                                         *)
(* called by the threads of several processes.  mach_task_self_ is the     *)
(* per-process word that <mach/mach.h> declares and the operating system   *)
(* fills in when the process is launched.  A call is two steps of the      *)
(* calling thread: the call instruction (Call) and the function body, the  *)
(* load of mach_task_self_ and the return of the loaded word               *)
(* (get_current_task_port).                                                *)
(***************************************************************************)
EXTENDS Integers, FiniteSets, Sequences

\* Threads per process.
NumThreads == 2

\* Number of distinct task-port names the kernel may hand out.
NumPorts == 2

\* The processes; each has its own address space, hence its own copy of
\* mach_task_self_.
Procs == {"P", "Q"}

Threads == Procs \X (1 .. NumThreads)

ProcOf(t) == t[1]

\* The null port name of <mach/mach.h>.
MACH_PORT_NULL == 0

\* Port names as the kernel issues them: a table index in the upper bits
\* and generation bits below, never MACH_PORT_NULL.  All are far below
\* 2^32, the range of mach_port_t.
PortNames == {256 * k + 3 : k \in 1 .. NumPorts}

\* What a caller holds before any of its calls has returned.
NoResult == << >>

VARIABLES
    mach_task_self_,   \* [Procs -> mach_port_t]: the ambient word of each process
    launched,          \* [Procs -> BOOLEAN]: the process runs user code
    pc,                \* [Threads -> {"idle", "entered"}]
    result             \* [Threads -> NoResult or <<v>>]: value of the thread's last returned call

vars == << mach_task_self_, launched, pc, result >>

TypeOK ==
    /\ mach_task_self_ \in [Procs -> PortNames \cup {MACH_PORT_NULL}]
    /\ launched \in [Procs -> BOOLEAN]
    /\ pc \in [Threads -> {"idle", "entered"}]
    /\ result \in [Threads -> {NoResult} \cup {<< v >> : v \in PortNames}]

\* Before the process is launched the word is zero-filled storage.
Init ==
    /\ mach_task_self_ = [p \in Procs |-> MACH_PORT_NULL]
    /\ launched = [p \in Procs |-> FALSE]
    /\ pc = [t \in Threads |-> "idle"]
    /\ result = [t \in Threads |-> NoResult]

\* Process start: the system library stores the task's own port name in
\* mach_task_self_ before any user code runs.
mach_init(p) ==
    /\ ~launched[p]
    /\ \E name \in PortNames : mach_task_self_' = [mach_task_self_ EXCEPT ![p] = name]
    /\ launched' = [launched EXCEPT ![p] = TRUE]
    /\ UNCHANGED << pc, result >>

\* A thread of a running process executes the call instruction.
Call(t) ==
    /\ launched[ProcOf(t)]
    /\ pc[t] = "idle"
    /\ pc' = [pc EXCEPT ![t] = "entered"]
    /\ UNCHANGED << mach_task_self_, launched, result >>

\* A narrower return type drops the upper bits of the name.
ReturnValue_truncated(t) == mach_task_self_[ProcOf(t)] % 256

\* The thread's own port (mach_thread_self) instead of the task's.
ReturnValue_thread_self(t) == mach_task_self_[ProcOf(t)] + 256 * NumPorts * t[2]

\* A copy kept from the caller's earlier call is handed out again.
ReturnValue_cached(t) ==
    IF result[t] # NoResult THEN result[t][1] ELSE mach_task_self_[ProcOf(t)]

\* A stub that yields the null port.
ReturnValue_null(t) == MACH_PORT_NULL

\* One slot shared by every process: the word of process "P".
ReturnValue_global(t) == mach_task_self_["P"]

\* Under contention only part of the word is seen (a torn read).
ReturnValue_torn(t) ==
    IF \E u \in Threads : u # t /\ ProcOf(u) = ProcOf(t) /\ pc[u] = "entered"
    THEN mach_task_self_[ProcOf(t)] % 256
    ELSE mach_task_self_[ProcOf(t)]

\* `return mach_task_self_;`: the word of the calling process, as it is now.
\* The variable and the return type are both mach_port_t: no conversion.
ReturnValue(t) == mach_task_self_[ProcOf(t)]

\* The body also stores to the ambient word (clears it after reading).
get_current_task_port_clobbering(t) ==
    /\ pc[t] = "entered"
    /\ result' = [result EXCEPT ![t] = << ReturnValue(t) >>]
    /\ pc' = [pc EXCEPT ![t] = "idle"]
    /\ mach_task_self_' = [mach_task_self_ EXCEPT ![ProcOf(t)] = MACH_PORT_NULL]
    /\ UNCHANGED launched

\* The body has a failure path: it aborts when another thread of the process
\* is inside the function.
get_current_task_port_failing(t) ==
    /\ pc[t] = "entered"
    /\ IF \E u \in Threads : u # t /\ ProcOf(u) = ProcOf(t) /\ pc[u] = "entered"
       THEN pc' = [pc EXCEPT ![t] = "aborted"] /\ UNCHANGED result
       ELSE /\ pc' = [pc EXCEPT ![t] = "idle"]
            /\ result' = [result EXCEPT ![t] = << ReturnValue(t) >>]
    /\ UNCHANGED << mach_task_self_, launched >>

\* The body waits until no other thread of the process is inside the function.
get_current_task_port_serialised(t) ==
    /\ pc[t] = "entered"
    /\ \A u \in Threads : (u # t /\ ProcOf(u) = ProcOf(t)) => pc[u] = "idle"
    /\ result' = [result EXCEPT ![t] = << ReturnValue(t) >>]
    /\ pc' = [pc EXCEPT ![t] = "idle"]
    /\ UNCHANGED << mach_task_self_, launched >>

\* The function body: load mach_task_self_ and return it to the caller.
get_current_task_port(t) ==
    /\ pc[t] = "entered"
    /\ result' = [result EXCEPT ![t] = << ReturnValue(t) >>]
    /\ pc' = [pc EXCEPT ![t] = "idle"]
    /\ UNCHANGED << mach_task_self_, launched >>

Next ==
    \/ \E p \in Procs : mach_init(p)
    \/ \E t \in Threads : Call(t)
    \/ \E t \in Threads : get_current_task_port(t)

Spec == Init /\ [][Next]_vars

\* The scheduler runs a thread that stays runnable inside the function.
LiveSpec == Spec /\ \A t \in Threads : WF_vars(get_current_task_port(t))

\* The hypothesis "the task identity of the process changes": the operating
\* system stores another port name in the ambient word of a running process.
task_identity_changes(p) ==
    /\ launched[p]
    /\ \E name \in PortNames \ {mach_task_self_[p]} :
           mach_task_self_' = [mach_task_self_ EXCEPT ![p] = name]
    /\ UNCHANGED << launched, pc, result >>

NextEnv ==
    \/ Next
    \/ \E p \in Procs : task_identity_changes(p)

SpecEnv == Init /\ [][NextEnv]_vars

\* The step in which thread t returns from the function.
Returns(t) == pc[t] = "entered" /\ pc'[t] = "idle"

SameProc(t, u) == ProcOf(t) = ProcOf(u)

(***************************************************************************)
(* Properties                                                              *)
(***************************************************************************)

\* C1: within one process every call returns the same value: whenever a
\* call returns, the value equals the value of every call that returned
\* before it in that process, by the same thread or by another one.
C1_SameValueEveryCall ==
    [][\A t, u \in Threads :
          (SameProc(t, u) /\ Returns(t) /\ result[u] # NoResult) => result'[t] = result[u]]_vars

\* Two threads of one process have each completed a call, with equal values.
C1_Witness ==
    \E t, u \in Threads :
        /\ t # u /\ SameProc(t, u)
        /\ result[t] # NoResult /\ result[t] = result[u]
        /\ pc[t] = "idle" /\ pc[u] = "idle"

\* C2: the function is a pass-through: the value a caller holds is the
\* ambient word mach_task_self_ of its process, untransformed.
C2_PassThrough ==
    \A t \in Threads :
        result[t] # NoResult => result[t] = << mach_task_self_[ProcOf(t)] >>

\* A call has returned the ambient word of its process.
C2_Witness ==
    \E t \in Threads :
        result[t] # NoResult /\ result[t][1] = mach_task_self_[ProcOf(t)] /\ pc[t] = "idle"

\* C3: under every interleaving of concurrent calls by threads of one
\* process, the values the threads hold agree and each is a whole port name,
\* never a partially written one.
C3_ConcurrentCallsAgree ==
    \A t, u \in Threads :
        (t # u /\ SameProc(t, u) /\ result[t] # NoResult) =>
            /\ result[t][1] \in PortNames
            /\ result[u] # NoResult => result[t] = result[u]

\* Two threads of one process are inside the function at the same time, and
\* each already holds the value of an earlier call.
C3_Witness ==
    \E t, u \in Threads :
        /\ t # u /\ SameProc(t, u)
        /\ pc[t] = "entered" /\ pc[u] = "entered"
        /\ result[t] # NoResult /\ result[u] # NoResult

\* C4: a call has no side effects: a step of a call by thread t (entering or
\* returning) leaves the ambient words, the launch state and everything the
\* other threads hold as they were.
C4_NoSideEffects ==
    [][\A t \in Threads :
          (pc'[t] # pc[t]) =>
              /\ mach_task_self_' = mach_task_self_
              /\ launched' = launched
              /\ \A u \in Threads \ {t} : pc'[u] = pc[u] /\ result'[u] = result[u]]_vars

\* Every thread of a process has completed a call and the ambient word is
\* still a port name.
C4_Witness ==
    \E p \in Procs :
        /\ mach_task_self_[p] \in PortNames
        /\ \A t \in Threads : ProcOf(t) = p => (result[t] # NoResult /\ pc[t] = "idle")

C6_NoErrorOutcome ==
    [][\A t \in Threads :
          (pc[t] = "entered" /\ pc'[t] # "entered") =>
              /\ pc'[t] = "idle"
              /\ result'[t] # NoResult
              /\ result'[t][1] \in PortNames]_vars

\* A call has completed while another thread of the process is still inside.
C6_Witness ==
    \E t, u \in Threads :
        /\ t # u /\ SameProc(t, u)
        /\ pc[t] = "idle" /\ result[t] # NoResult
        /\ pc[u] = "entered" /\ result[u] = NoResult

\* C7: every call returns, and never waits on another thread: the return
\* step of a thread is enabled exactly when the thread is inside the
\* function, whatever the other threads are doing.
C7_AlwaysReturns ==
    /\ \A t \in Threads : (pc[t] = "entered") ~> (pc[t] = "idle")
    /\ [](\A t \in Threads : (ENABLED get_current_task_port(t)) <=> (pc[t] = "entered"))

\* All threads of one process are inside the function at once.
C7_Witness ==
    \E p \in Procs : \A t \in Threads : ProcOf(t) = p => pc[t] = "entered"

\* C8: nothing is cached: when the ambient word has changed since the
\* caller's earlier call, the later call returns the new word and not the
\* value the earlier call returned.
C8_NoCache ==
    [][\A t \in Threads :
          (Returns(t) /\ result[t] # NoResult /\ result[t][1] # mach_task_self_[ProcOf(t)]) =>
              /\ result'[t] = << mach_task_self_[ProcOf(t)] >>
              /\ result'[t] # result[t]]_vars

\* Two calls in one process returned different values: the word changed
\* between them, and the later value is the current word.
C8_Witness ==
    \E t, u \in Threads :
        /\ SameProc(t, u)
        /\ result[t] # NoResult /\ result[u] # NoResult
        /\ result[t] # result[u]
        /\ result[u][1] = mach_task_self_[ProcOf(u)]

\* C9: the result is scoped to the calling process: a call in one process
\* returns that process's word, and no step of the call changes the word of,
\* or anything held by the threads of, another process.
C9_ProcessScoped ==
    [][\A t \in Threads :
          /\ Returns(t) => result'[t] = << mach_task_self_[ProcOf(t)] >>
          /\ (pc'[t] # pc[t]) =>
                 \A u \in Threads :
                     ~SameProc(t, u) =>
                         /\ mach_task_self_'[ProcOf(u)] = mach_task_self_[ProcOf(u)]
                         /\ pc'[u] = pc[u]
                         /\ result'[u] = result[u]]_vars

\* Calls in two processes with different words have returned different values.
C9_Witness ==
    \E t, u \in Threads :
        /\ ~SameProc(t, u)
        /\ result[t] # NoResult /\ result[u] # NoResult
        /\ result[t] # result[u]
        /\ mach_task_self_[ProcOf(t)] # mach_task_self_[ProcOf(u)]

=============================================================================
